---- MODULE Spec2Model ----
(***************************************************************************)
(* A model of md_code_extractor.py: the three regular expressions of       *)
(* extract_code_blocks, evaluated as re.findall evaluates them (leftmost   *)
(* match, greedy and lazy quantifiers with backtracking, non-overlapping   *)
(* scan), the write loop of create_files and the exit paths of main.       *)
(*                                                                         *)
(* A document is a sequence of tokens.  A token is one character, except   *)
(* that the keyword FILE and the fence marker ``` are one token each: the  *)
(* documents considered contain the letters F,I,L,E only as that keyword   *)
(* and backticks only in runs of exactly three.                            *)
(***************************************************************************)
EXTENDS Integers, Sequences, FiniteSets, TLC

\* The largest number of heading+tail blocks of a generated document.
MaxBlocks == 2

NL == "\n"
SP == " "
\* The fence marker, three backticks, as one token.
FENCE == "~~~"
KEYWORD == "FILE"

(***************************************************************************)
(* Character classes of the patterns.                                      *)
(***************************************************************************)
\* \s
IsSpace(t) == t \in {SP, NL}

\* \d
IsDigit(t) == t = "1"

RECURSIVE WsEnd(_, _)
\* \s* or \s+ taken greedily from position i: the first position not in \s.
WsEnd(doc, i) ==
  IF i <= Len(doc) /\ IsSpace(doc[i]) THEN WsEnd(doc, i + 1) ELSE i

RECURSIVE DigitsEnd(_, _)
\* \d+ taken greedily from position i.
DigitsEnd(doc, i) ==
  IF i <= Len(doc) /\ IsDigit(doc[i]) THEN DigitsEnd(doc, i + 1) ELSE i

RECURSIVE LineEnd(_, _)
\* [^\n]* taken greedily from position i: the position of the next newline,
\* or Len(doc)+1 when the line runs to the end of the document.
LineEnd(doc, i) ==
  IF i <= Len(doc) /\ doc[i] # NL THEN LineEnd(doc, i + 1) ELSE i

RECURSIVE NlEnd(_, _)
\* \n+ taken greedily from position i.
NlEnd(doc, i) ==
  IF i <= Len(doc) /\ doc[i] = NL THEN NlEnd(doc, i + 1) ELSE i

RECURSIVE FenceOrEnd(_, _)
\* A fail-open variant of FenceFrom: with no closing fence the body runs to
\* the end of the document.
FenceOrEnd(doc, i) ==
  IF i > Len(doc) THEN Len(doc) + 1
  ELSE IF doc[i] = FENCE THEN i
  ELSE FenceOrEnd(doc, i + 1)

RECURSIVE FenceFrom(_, _)
\* (.*?)``` with DOTALL: the nearest ``` at or after position i, 0 when the
\* rest of the document holds none (the lazy group then cannot match).
FenceFrom(doc, i) ==
  IF i > Len(doc) THEN 0
  ELSE IF doc[i] = FENCE THEN i
  ELSE FenceFrom(doc, i + 1)

NoMatch == [ok |-> FALSE]

\* The part the three patterns share, ([^\n]+)\n+```[^\n]*\n(.*?)```, tried
\* with group 1 starting at p.  Every quantifier but the last is followed by
\* a token it cannot itself match, so only its longest run can succeed.
PathAndFence(doc, p) ==
  LET e  == LineEnd(doc, p)
      n  == NlEnd(doc, e)
      e2 == LineEnd(doc, n + 1)
      c  == FenceFrom(doc, e2 + 1)
  IN  IF /\ e > p
         /\ n > e
         /\ n <= Len(doc)
         /\ doc[n] = FENCE
         /\ e2 <= Len(doc)
         /\ c # 0
      THEN [ok |-> TRUE, path |-> SubSeq(doc, p, e - 1),
            body |-> SubSeq(doc, e2 + 1, c - 1),
            open |-> n, close |-> c]
      ELSE NoMatch

RECURSIVE TryFrom(_, _, _)
\* Backtracking of the \s run before group 1: the run is tried at its
\* longest first, then one token shorter, down to ending at lo.
TryFrom(doc, p, lo) ==
  IF p < lo THEN NoMatch
  ELSE LET m == PathAndFence(doc, p)
       IN  IF m.ok THEN m ELSE TryFrom(doc, p - 1, lo)

At(doc, i) == IF i >= 1 /\ i <= Len(doc) THEN doc[i] ELSE "<eof>"

\* FILE\s+\d+:\s*(...) from position k, the part patterns A and C share.
Numbered(doc, k) ==
  LET w2 == WsEnd(doc, k + 1)
      d  == DigitsEnd(doc, w2)
  IN  IF /\ At(doc, k) = KEYWORD
         /\ w2 > k + 1
         /\ d > w2
         /\ At(doc, d) = ":"
      THEN TryFrom(doc, WsEnd(doc, d + 1), d + 1)
      ELSE NoMatch

\* pattern_a = ##\s+FILE\s+\d+:\s*([^\n]+)\n+```[^\n]*\n(.*?)``` at position i.
pattern_a(doc, i) ==
  LET w == WsEnd(doc, i + 2)
  IN  IF At(doc, i) = "#" /\ At(doc, i + 1) = "#" /\ w > i + 2
      THEN Numbered(doc, w)
      ELSE NoMatch

\* pattern_c = ###\s+FILE\s+\d+:\s*([^\n]+)\n+```[^\n]*\n(.*?)``` at position i.
pattern_c(doc, i) ==
  LET w == WsEnd(doc, i + 3)
  IN  IF /\ At(doc, i) = "#" /\ At(doc, i + 1) = "#" /\ At(doc, i + 2) = "#"
         /\ w > i + 3
      THEN Numbered(doc, w)
      ELSE NoMatch

\* pattern_b = ###\s+([^\n]+?)\n+```[^\n]*\n(.*?)``` at position i.
pattern_b(doc, i) ==
  LET w == WsEnd(doc, i + 3)
  IN  IF /\ At(doc, i) = "#" /\ At(doc, i + 1) = "#" /\ At(doc, i + 2) = "#"
         /\ w > i + 3
      THEN TryFrom(doc, w, i + 4)
      ELSE NoMatch

MatchAt(fam, doc, i) ==
  CASE fam = "A" -> pattern_a(doc, i)
    [] fam = "C" -> pattern_c(doc, i)
    [] fam = "B" -> pattern_b(doc, i)

RECURSIVE FindAll(_, _, _)
\* re.findall: the leftmost match from i, then the scan resumes after it.
FindAll(fam, doc, i) ==
  IF i > Len(doc) THEN << >>
  ELSE LET m == MatchAt(fam, doc, i)
       IN  IF m.ok
           THEN << [family |-> fam, start |-> i, path |-> m.path,
                     body |-> m.body, open |-> m.open, close |-> m.close] >>
                \o FindAll(fam, doc, m.close + 1)
           ELSE FindAll(fam, doc, i + 1)

(***************************************************************************)
(* str.strip, str.rstrip, str.startswith and the `in` test.                *)
(***************************************************************************)
RECURSIVE rstrip(_)
rstrip(s) ==
  IF s # << >> /\ IsSpace(s[Len(s)]) THEN rstrip(SubSeq(s, 1, Len(s) - 1))
  ELSE s

RECURSIVE lstrip(_)
lstrip(s) ==
  IF s # << >> /\ IsSpace(s[1]) THEN lstrip(Tail(s)) ELSE s

\* A variant of strip that leaves trailing white space.
StripLeftOnly(s) == lstrip(s)

strip(s) == lstrip(rstrip(s))

startswith(s, t) == s # << >> /\ s[1] = t

Contains(s, t) == \E k \in 1..Len(s) : s[k] = t

\* A variant of AcceptB without the test for ".".
AcceptBWithoutDot(file_path) ==
  /\ file_path # << >>
  /\ ~startswith(file_path, "*")
  /\ ~startswith(file_path, KEYWORD)

\* The if of the pattern_b loop.
AcceptB(file_path) ==
  /\ file_path # << >>
  /\ ~startswith(file_path, "*")
  /\ ~startswith(file_path, KEYWORD)
  /\ Contains(file_path, ".")

\* A variant of Entry that keeps the body's trailing white space.
EntryUntrimmed(m) == [path |-> strip(m.path), code |-> m.body]

\* One (file_path, code_content) tuple of code_blocks.
Entry(m) == [path |-> strip(m.path), code |-> rstrip(m.body)]

RECURSIVE SelectMatches(_, _)
\* The matches a family's loop appends, in the order findall returned them.
SelectMatches(ms, fam) ==
  IF ms = << >> THEN << >>
  ELSE LET rest == SelectMatches(Tail(ms), fam)
       IN  IF fam = "B" /\ ~AcceptB(strip(Head(ms).path)) THEN rest
           ELSE << Head(ms) >> \o rest

\* What the loop over one family's findall result appends to code_blocks.
FamilyMatches(fam, doc) == SelectMatches(FindAll(fam, doc, 1), fam)

Entries(ms) == [k \in 1..Len(ms) |-> Entry(ms[k])]

(***************************************************************************)
(* The documents read: up to MaxBlocks blocks, each a heading line and     *)
(* what follows it.                                                        *)
(***************************************************************************)
Headings ==
  { << "#", "#", SP, KEYWORD, SP, "1", ":", SP, "a", ".", "b" >>,
    << "#", "#", SP, KEYWORD, SP, "1", ":", SP, "d", "/", "a" >>,
    << "#", "#", SP, KEYWORD, SP, "1", ":", SP >>,
    << "#", "#", "#", SP, KEYWORD, SP, "1", ":", SP, "a", ".", "b", SP >>,
    << "#", "#", "#", SP, "a", ".", "b" >>,
    << "#", "#", "#", SP, SP, "d", "/", "a", ".", "b", SP >>,
    << "#", "#", "#", SP, "a" >>,
    << "#", "#", "#", SP, KEYWORD, "a", ".", "b" >>,
    << "#", "#", "#", SP, "*", "a", ".", "b" >> }

Tails ==
  { << NL, FENCE, NL, "x", NL, FENCE, NL >>,
    << NL, NL, FENCE, "p", "y", NL, "y", SP, NL, NL, FENCE, NL >>,
    << NL, FENCE, NL, "x", NL >>,
    << NL, "x", NL >> }

Blocks == { h \o t : h \in Headings, t \in Tails }

RECURSIVE DocsOf(_)
DocsOf(n) ==
  IF n = 0 THEN { << >> }
  ELSE LET shorter == DocsOf(n - 1)
       IN  shorter \cup { d \o b : d \in shorter, b \in Blocks }

Docs == DocsOf(MaxBlocks)

(***************************************************************************)
(* os.path.join and os.path.dirname on token sequences.                    *)
(***************************************************************************)
join(a, b) ==
  IF startswith(b, "/") THEN b
  ELSE IF a = << >> \/ a[Len(a)] = "/" THEN a \o b
  ELSE a \o << "/" >> \o b

RECURSIVE LastSlash(_, _)
\* str.rfind('/') + 1: the position of the last "/" at or before k, or 0.
LastSlash(p, k) ==
  IF k = 0 THEN 0 ELSE IF p[k] = "/" THEN k ELSE LastSlash(p, k - 1)

RECURSIVE StripSlashes(_)
StripSlashes(p) ==
  IF p # << >> /\ p[Len(p)] = "/" THEN StripSlashes(SubSeq(p, 1, Len(p) - 1))
  ELSE p

dirname(p) ==
  LET head == SubSeq(p, 1, LastSlash(p, Len(p)))
  IN  IF StripSlashes(head) = << >> THEN head ELSE StripSlashes(head)

\* The directories os.makedirs(d, exist_ok=True) leaves in existence.
Ancestors(d) ==
  { StripSlashes(SubSeq(d, 1, k)) : k \in { j \in 1..Len(d) : j = Len(d) \/ d[j + 1] = "/" } }
    \ { << >> }

(***************************************************************************)
(* The state of one run.                                                   *)
(***************************************************************************)
VARIABLES
  pc,                \* where main is
  output_dir,        \* sys.argv[2], or "."
  markdown_content,  \* the text read from the input file
  code_blocks,       \* the list extract_code_blocks builds and create_files reads
  origin,            \* for each entry of code_blocks, the match it came from
  created_files,     \* create_files: full paths written
  failed_files,      \* create_files: (file_path, error) of the entries that raised
  outcomes,          \* for each entry attempted so far, whether it was created
  files,             \* the file system: full path -> content
  dirs,              \* the file system: directories
  exit_code,         \* the status the process ends with
  exit_at            \* the place main ended

vars == << pc, output_dir, markdown_content, code_blocks, origin, created_files,
           failed_files, outcomes, files, dirs, exit_code, exit_at >>

NoFiles == [p \in {} |-> << >>]

Init ==
  /\ pc = "start"
  /\ output_dir = << >>
  /\ markdown_content = << >>
  /\ code_blocks = << >>
  /\ origin = << >>
  /\ created_files = << >>
  /\ failed_files = << >>
  /\ outcomes = << >>
  /\ files = NoFiles
  /\ dirs = {}
  /\ exit_code = -1
  /\ exit_at = "running"

Exit(code, place) ==
  /\ pc' = "exit"
  /\ exit_code' = code
  /\ exit_at' = place

(***************************************************************************)
(* main, up to the call of extract_code_blocks.                            *)
(***************************************************************************)
\* len(sys.argv) < 2: the usage text and sys.exit(1).
Usage ==
  /\ pc = "start"
  /\ Exit(1, "usage")
  /\ UNCHANGED << output_dir, markdown_content, code_blocks, origin, created_files,
                  failed_files, outcomes, files, dirs >>

\* output_dir = sys.argv[2] if len(sys.argv) > 2 else "."
Arguments ==
  /\ pc = "start"
  /\ \E od \in { << "." >>, << "o" >> } : output_dir' = od
  /\ pc' = "isfile"
  /\ UNCHANGED << markdown_content, code_blocks, origin, created_files,
                  failed_files, outcomes, files, dirs, exit_code, exit_at >>

\* not os.path.isfile(markdown_file): sys.exit(1).
InputNotFound ==
  /\ pc = "isfile"
  /\ Exit(1, "not_found")
  /\ UNCHANGED << output_dir, markdown_content, code_blocks, origin, created_files,
                  failed_files, outcomes, files, dirs >>

InputFound ==
  /\ pc = "isfile"
  /\ pc' = "makedirs"
  /\ UNCHANGED << output_dir, markdown_content, code_blocks, origin, created_files,
                  failed_files, outcomes, files, dirs, exit_code, exit_at >>

\* os.makedirs(output_dir, exist_ok=True)
MakeOutputDir ==
  /\ pc = "makedirs"
  /\ dirs' = dirs \cup Ancestors(output_dir)
  /\ pc' = "read"
  /\ UNCHANGED << output_dir, markdown_content, code_blocks, origin, created_files,
                  failed_files, outcomes, files, exit_code, exit_at >>

\* os.makedirs raises: main does not catch it, the interpreter ends with 1.
MakeOutputDirRaises ==
  /\ pc = "makedirs"
  /\ Exit(1, "output_dir")
  /\ UNCHANGED << output_dir, markdown_content, code_blocks, origin, created_files,
                  failed_files, outcomes, files, dirs >>

\* markdown_content = f.read()
ReadInput ==
  /\ pc = "read"
  /\ \E d \in Docs : markdown_content' = d
  /\ pc' = "pattern_a"
  /\ UNCHANGED << output_dir, code_blocks, origin, created_files,
                  failed_files, outcomes, files, dirs, exit_code, exit_at >>

\* open or read raises: "Error reading file" and sys.exit(1).
ReadRaises ==
  /\ pc = "read"
  /\ Exit(1, "read_error")
  /\ UNCHANGED << output_dir, markdown_content, code_blocks, origin, created_files,
                  failed_files, outcomes, files, dirs >>

(***************************************************************************)
(* extract_code_blocks: one step per pattern, each a findall over the      *)
(* whole document followed by the loop that appends to code_blocks.        *)
(***************************************************************************)
Origin(m) == [family |-> m.family, start |-> m.start, open |-> m.open, close |-> m.close]

Origins(ms) == [k \in 1..Len(ms) |-> Origin(ms[k])]

\* A variant of AppendFamily that puts a family's matches in front.
PrependFamily(blocks, ms) == ms \o blocks

\* code_blocks.append for every match of one family.
AppendFamily(blocks, ms) == blocks \o ms

ExtractFamily(fam, next) ==
  LET ms == FamilyMatches(fam, markdown_content)
  IN  /\ code_blocks' = AppendFamily(code_blocks, Entries(ms))
      /\ origin' = AppendFamily(origin, Origins(ms))
      /\ pc' = next
      /\ UNCHANGED << output_dir, markdown_content, created_files, failed_files,
                      outcomes, files, dirs, exit_code, exit_at >>

ExtractA == pc = "pattern_a" /\ ExtractFamily("A", "pattern_c")

ExtractC == pc = "pattern_c" /\ ExtractFamily("C", "pattern_b")

ExtractB == pc = "pattern_b" /\ ExtractFamily("B", "extracted")

\* if not code_blocks: the notice and sys.exit(0).
NoCodeBlocks ==
  /\ pc = "extracted"
  /\ code_blocks = << >>
  /\ Exit(0, "no_blocks")
  /\ UNCHANGED << output_dir, markdown_content, code_blocks, origin, created_files,
                  failed_files, outcomes, files, dirs >>

CallCreateFiles ==
  /\ pc = "extracted"
  /\ code_blocks # << >>
  /\ pc' = "create_files"
  /\ UNCHANGED << output_dir, markdown_content, code_blocks, origin, created_files,
                  failed_files, outcomes, files, dirs, exit_code, exit_at >>

(***************************************************************************)
(* create_files: one step per entry, in list order.                        *)
(***************************************************************************)
\* The entry the for loop is at.
Current == code_blocks[Len(outcomes) + 1]

full_path == join(output_dir, Current.path)

parent_dir == dirname(full_path)

\* open(full_path, 'w') cannot succeed on a directory.
IsDirectory(p) == p \in dirs \/ p[Len(p)] = "/"

\* A variant of WriteFile that leaves an existing file as it is.
WriteFileKeepExisting(fs, p, content) ==
  [q \in DOMAIN fs \cup {p} |-> IF q \in DOMAIN fs THEN fs[q] ELSE content]

\* f.write(code_content) on the file open(..., 'w') created or truncated.
WriteFile(fs, p, content) ==
  [q \in DOMAIN fs \cup {p} |-> IF q = p THEN content ELSE fs[q]]

MakeParents == IF parent_dir # << >> THEN dirs \cup Ancestors(parent_dir) ELSE dirs

\* A variant of AfterFailure that ends the run at the first failure.
AfterFailureAborts ==
  /\ failed_files' = Append(failed_files, [path |-> Current.path, error |-> "str(e)"])
  /\ outcomes' = Append(outcomes, FALSE)
  /\ pc' = "exit"

\* What the except clause does with the loop: record the failure, go on.
AfterFailure ==
  /\ failed_files' = Append(failed_files, [path |-> Current.path, error |-> "str(e)"])
  /\ outcomes' = Append(outcomes, FALSE)
  /\ pc' = pc

InLoop == pc = "create_files" /\ Len(outcomes) < Len(code_blocks)

\* The try body runs to its end.
Created ==
  /\ InLoop
  /\ ~IsDirectory(full_path)
  /\ dirs' = MakeParents
  /\ files' = WriteFile(files, full_path, Current.code)
  /\ created_files' = Append(created_files, full_path)
  /\ outcomes' = Append(outcomes, TRUE)
  /\ UNCHANGED << pc, output_dir, markdown_content, code_blocks, origin,
                  failed_files, exit_code, exit_at >>

\* os.makedirs raises.
MakedirsRaises ==
  /\ InLoop
  /\ parent_dir # << >>
  /\ AfterFailure
  /\ UNCHANGED << output_dir, markdown_content, code_blocks, origin,
                  created_files, files, dirs, exit_code, exit_at >>

\* open raises: always on a directory, otherwise when the environment refuses.
OpenRaises ==
  /\ InLoop
  /\ dirs' = MakeParents
  /\ AfterFailure
  /\ UNCHANGED << output_dir, markdown_content, code_blocks, origin,
                  created_files, files, exit_code, exit_at >>

\* f.write raises after open(..., 'w') has created or truncated the file.
WriteRaises ==
  /\ InLoop
  /\ ~IsDirectory(full_path)
  /\ dirs' = MakeParents
  /\ files' = WriteFile(files, full_path, << >>)
  /\ AfterFailure
  /\ UNCHANGED << output_dir, markdown_content, code_blocks, origin,
                  created_files, exit_code, exit_at >>

\* A variant of Return that reports success whatever failed.
ReturnZero ==
  /\ pc = "create_files"
  /\ Len(outcomes) = Len(code_blocks)
  /\ Exit(0, "return")
  /\ UNCHANGED << output_dir, markdown_content, code_blocks, origin, created_files,
                  failed_files, outcomes, files, dirs >>

\* return 0 if not failed_files else 1, handed to sys.exit.
Return ==
  /\ pc = "create_files"
  /\ Len(outcomes) = Len(code_blocks)
  /\ Exit(IF failed_files = << >> THEN 0 ELSE 1, "return")
  /\ UNCHANGED << output_dir, markdown_content, code_blocks, origin, created_files,
                  failed_files, outcomes, files, dirs >>

Next ==
  \/ Usage
  \/ Arguments
  \/ InputNotFound
  \/ InputFound
  \/ MakeOutputDir
  \/ MakeOutputDirRaises
  \/ ReadInput
  \/ ReadRaises
  \/ ExtractA
  \/ ExtractC
  \/ ExtractB
  \/ NoCodeBlocks
  \/ CallCreateFiles
  \/ Created
  \/ MakedirsRaises
  \/ OpenRaises
  \/ WriteRaises
  \/ Return

Spec == Init /\ [][Next]_vars

(***************************************************************************)
(* The document as a reader of Markdown sees it, for stating the claims:   *)
(* heading lines, their level and text, and whether a position lies in a   *)
(* fenced region.                                                          *)
(***************************************************************************)
Doc == markdown_content

LineStart(i) == i = 1 \/ Doc[i - 1] = NL

RECURSIVE HashRun(_)
HashRun(i) == IF At(Doc, i) = "#" THEN 1 + HashRun(i + 1) ELSE 0

\* The positions at which a heading line begins.
HeadingStarts == { i \in 1..Len(Doc) : LineStart(i) /\ Doc[i] = "#" }

Level(i) == HashRun(i)

\* The heading's text: what follows its # run, to the end of the line.
HeadingText(i) == SubSeq(Doc, i + Level(i), LineEnd(Doc, i) - 1)

FencesBefore(i) == Cardinality({ k \in 1..(i - 1) : Doc[k] = FENCE })

\* No heading line up to and including the one at i lies between an opening
\* fence and its closing fence.
InBodyText(i) ==
  \A j \in HeadingStarts : j <= i => FencesBefore(j) % 2 = 0

\* The position of the fence that opens right after the heading line at i
\* (only line breaks between), or 0.
OpeningFence(i) ==
  LET e == LineEnd(Doc, i)
      n == NlEnd(Doc, e)
  IN  IF n > e /\ At(Doc, n) = FENCE THEN n ELSE 0

ClosedFence(i) ==
  /\ OpeningFence(i) # 0
  /\ \E k \in (OpeningFence(i) + 1)..Len(Doc) : Doc[k] = FENCE

UnclosedFence(i) ==
  /\ OpeningFence(i) # 0
  /\ \A k \in (OpeningFence(i) + 1)..Len(Doc) : Doc[k] # FENCE

\* The heading at i reads KEYWORD <integer>: ...
IsNumbered(i) ==
  LET k  == WsEnd(Doc, i + Level(i))
      w2 == WsEnd(Doc, k + 1)
      d  == DigitsEnd(Doc, w2)
  IN  /\ k > i + Level(i)
      /\ At(Doc, k) = KEYWORD
      /\ w2 > k + 1
      /\ d > w2
      /\ At(Doc, d) = ":"

\* The entries whose match begins in the heading line at i.
EntriesOf(i) ==
  { k \in 1..Len(origin) : origin[k].start >= i /\ origin[k].start < LineEnd(Doc, i) }

Extracted == pc = "extracted"

LoopDone ==
  /\ pc \in {"create_files", "exit"}
  /\ code_blocks # << >>
  /\ Len(outcomes) = Len(code_blocks)

Rank(fam) == CASE fam = "A" -> 1 [] fam = "C" -> 2 [] fam = "B" -> 3

\* The text between the fences of entry k's match, as found in the document.
RawBody(k) == SubSeq(Doc, LineEnd(Doc, origin[k].open) + 1, origin[k].close - 1)

Trimmed(s) == s = << >> \/ (~IsSpace(s[1]) /\ ~IsSpace(s[Len(s)]))

ResolvedPath(k) == join(output_dir, code_blocks[k].path)

(***************************************************************************)
(* Claims.                                                                 *)
(***************************************************************************)

C2_SingleFamilyC ==
  ( /\ Extracted
    /\ HeadingStarts = {1}
    /\ Level(1) = 3
    /\ IsNumbered(1)
    /\ ClosedFence(1) )
  => /\ Len(code_blocks) = 1
     /\ code_blocks[1].path = strip(pattern_c(Doc, 1).path)
     /\ code_blocks[1].code = rstrip(pattern_c(Doc, 1).body)

\* The text of a level-3 heading, trimmed, as family B's loop sees it.
BareText(i) == strip(HeadingText(i))

\* A level-3 heading line in body text, not of the numbered form, followed
\* by a closed fence.
BareHeading(i) ==
  /\ i \in HeadingStarts
  /\ Level(i) = 3
  /\ IsSpace(At(Doc, i + 3))
  /\ ~IsNumbered(i)
  /\ InBodyText(i)
  /\ ClosedFence(i)

\* C3: for a bare level-3 heading in body text followed by a closed fence:
\* when its trimmed text is non-empty, does not start with * or FILE and
\* contains a ".", exactly one entry begins at the heading, it is family
\* B's and its path is the trimmed text; when the text contains no ".", no
\* entry of any family begins at the heading.
C3_BareHeading ==
  Extracted =>
    \A i \in HeadingStarts :
      BareHeading(i) =>
        /\ ( /\ BareText(i) # << >>
             /\ ~startswith(BareText(i), "*")
             /\ ~startswith(BareText(i), KEYWORD)
             /\ Contains(BareText(i), ".") )
           => /\ Cardinality(EntriesOf(i)) = 1
              /\ \A k \in EntriesOf(i) :
                   /\ origin[k].family = "B"
                   /\ origin[k].start = i
                   /\ code_blocks[k].path = BareText(i)
        /\ ~Contains(BareText(i), ".") => EntriesOf(i) = {}

\* C3 witness: one document holds an accepted bare heading with its entry
\* and a bare heading without "." that yields none.
C3_Witness ==
  /\ Extracted
  /\ \E i, j \in HeadingStarts :
       /\ BareHeading(i)
       /\ Contains(BareText(i), ".")
       /\ EntriesOf(i) # {}
       /\ BareHeading(j)
       /\ ~Contains(BareText(j), ".")
       /\ EntriesOf(j) = {}

\* The entries that declare the same path as entry k.
SamePath(k) == { j \in 1..Len(code_blocks) : code_blocks[j].path = code_blocks[k].path }

Last(S) == CHOOSE k \in S : \A j \in S : j <= k

\* C4: once create_files has gone through the whole sequence, a path declared
\* by several entries, all of them written successfully, holds the body of
\* the last of those entries.
C4_LastWriteWins ==
  LoopDone =>
    \A k \in 1..Len(code_blocks) :
      ( /\ Cardinality(SamePath(k)) >= 2
        /\ \A j \in SamePath(k) : outcomes[j] )
      => /\ ResolvedPath(k) \in DOMAIN files
         /\ files[ResolvedPath(k)] = code_blocks[Last(SamePath(k))].code

\* C4 witness: two entries of different bodies declare one path, both were
\* written, and the loop has ended.
C4_Witness ==
  /\ LoopDone
  /\ \E j, k \in 1..Len(code_blocks) :
       /\ j < k
       /\ code_blocks[j].path = code_blocks[k].path
       /\ code_blocks[j].code # code_blocks[k].code
       /\ \A m \in SamePath(k) : outcomes[m]

\* The subsequence of the entries attempted with the given outcome.
RECURSIVE WithOutcome(_, _)
WithOutcome(n, o) ==
  IF n = 0 THEN << >>
  ELSE IF outcomes[n] = o THEN Append(WithOutcome(n - 1, o), n)
  ELSE WithOutcome(n - 1, o)

\* C5: the run never ends inside create_files with entries left: when the
\* process has ended after a non-empty extraction every entry was attempted,
\* in order, each is in exactly one of created_files and failed_files, and
\* the two lists together are as long as the entry sequence.
C5_EveryEntryAttempted ==
  /\ Len(outcomes) <= Len(code_blocks)
  /\ LET done == WithOutcome(Len(outcomes), TRUE)
         bad  == WithOutcome(Len(outcomes), FALSE)
     IN  /\ created_files = [n \in 1..Len(done) |-> ResolvedPath(done[n])]
         /\ [n \in 1..Len(failed_files) |-> failed_files[n].path]
              = [n \in 1..Len(bad) |-> code_blocks[bad[n]].path]
  /\ (pc = "exit" /\ code_blocks # << >>) =>
       /\ Len(outcomes) = Len(code_blocks)
       /\ Len(created_files) + Len(failed_files) = Len(code_blocks)

\* C5 witness: the run has ended, the first entry failed and a later entry
\* was created.
C5_Witness ==
  /\ pc = "exit"
  /\ Len(outcomes) >= 2
  /\ ~outcomes[1]
  /\ \E k \in 2..Len(outcomes) : outcomes[k]

\* C6: the exit code is 1 when the input is not found or cannot be read, 0
\* when extraction yields no entry, 0 when every entry was written, and 1
\* when some entry failed; no exit code is set while entries remain
\* unattempted.
C6_ExitCode ==
  /\ pc # "exit" => exit_code = -1
  /\ pc = "exit" =>
       /\ exit_at \in {"not_found", "read_error"} => exit_code = 1
       /\ exit_at = "no_blocks" => (code_blocks = << >> /\ exit_code = 0)
       /\ exit_at = "return" =>
            /\ code_blocks # << >>
            /\ Len(outcomes) = Len(code_blocks)
            /\ (\A k \in 1..Len(outcomes) : outcomes[k]) => exit_code = 0
            /\ (\E k \in 1..Len(outcomes) : ~outcomes[k]) => exit_code = 1
       /\ failed_files # << >> =>
            (exit_code = 1 /\ Len(outcomes) = Len(code_blocks))
  /\ (Extracted /\ code_blocks = << >>) =>
       (~ENABLED CallCreateFiles /\ ENABLED NoCodeBlocks)

\* C6 witness: the run ended with 1 after an early entry failed and every
\* later entry was still attempted, the last one successfully.
C6_Witness ==
  /\ pc = "exit"
  /\ exit_code = 1
  /\ Len(outcomes) >= 2
  /\ ~outcomes[1]
  /\ outcomes[Len(outcomes)]
  /\ Len(outcomes) = Len(code_blocks)

\* The headings, of any family, whose fence is opened and never closed.
UnclosedHeading(i) == i \in HeadingStarts /\ UnclosedFence(i)

\* C7: a heading whose fence is opened but never closed yields no entry, and
\* no entry's body runs to the end of the document: every entry's body ends
\* at a closing fence that follows its opening fence.
C7_UnclosedFence ==
  Extracted =>
    /\ \A i \in HeadingStarts : UnclosedHeading(i) => EntriesOf(i) = {}
    /\ \A k \in 1..Len(origin) :
         /\ origin[k].close <= Len(Doc)
         /\ origin[k].close > origin[k].open
         /\ Doc[origin[k].close] = FENCE

\* C7 witness: a heading that pattern_a, pattern_c or pattern_b would accept
\* with a closed fence has an unclosed one, after an earlier entry.
C7_Witness ==
  /\ Extracted
  /\ code_blocks # << >>
  /\ \E i \in HeadingStarts :
       /\ UnclosedHeading(i)
       /\ InBodyText(i)
       /\ i > 1
       /\ Contains(HeadingText(i), ".")

\* Entry k was written and no later entry resolves to the same file.
LastWriter(k) ==
  /\ outcomes[k]
  /\ \A j \in (k + 1)..Len(code_blocks) : ResolvedPath(j) # ResolvedPath(k)

\* C8 (as claimed): after the run, the file of every entry that was written
\* holds that entry's trimmed body.
C8_RoundTripEveryEntry ==
  LoopDone =>
    \A k \in 1..Len(code_blocks) :
      outcomes[k] =>
        /\ ResolvedPath(k) \in DOMAIN files
        /\ files[ResolvedPath(k)] = rstrip(RawBody(k))

\* C8 (amended): after the run, the file of every entry that was written and
\* is not followed in the sequence by another entry of the same resolved
\* path holds that entry's trimmed body.
C8_RoundTripLastWriter ==
  LoopDone =>
    \A k \in 1..Len(code_blocks) :
      LastWriter(k) =>
        /\ ResolvedPath(k) \in DOMAIN files
        /\ files[ResolvedPath(k)] = rstrip(RawBody(k))

\* C8 witness: a written entry whose fence body ended in white space, with
\* no later entry of its path, after the loop.
C8_Witness ==
  /\ LoopDone
  /\ \E k \in 1..Len(code_blocks) :
       /\ LastWriter(k)
       /\ RawBody(k) # rstrip(RawBody(k))
       /\ files[ResolvedPath(k)] = code_blocks[k].code

\* C9 (as claimed): every entry's path is trimmed and contains a ".".
C9_EveryPathHasDot ==
  Extracted =>
    \A k \in 1..Len(code_blocks) :
      /\ Trimmed(code_blocks[k].path)
      /\ Contains(code_blocks[k].path, ".")

\* C9 (amended): every entry's path is trimmed of surrounding white space,
\* and every entry of family B has a path that contains a "."; an entry of
\* family A or C is accepted whatever its path.
C9_FamilyBPathHasDot ==
  Extracted =>
    \A k \in 1..Len(code_blocks) :
      /\ Trimmed(code_blocks[k].path)
      /\ origin[k].family = "B" => Contains(code_blocks[k].path, ".")

\* C9 witness: a family B entry whose heading text had white space around
\* the path, beside a family A entry whose path has no ".".
C9_Witness ==
  /\ Extracted
  /\ \E k \in 1..Len(code_blocks) :
       /\ origin[k].family = "B"
       /\ HeadingText(origin[k].start) # strip(HeadingText(origin[k].start)) \o << >>
       /\ IsSpace(HeadingText(origin[k].start)[Len(HeadingText(origin[k].start))])
  /\ \E k \in 1..Len(code_blocks) :
       /\ origin[k].family = "A"
       /\ ~Contains(code_blocks[k].path, ".")

\* C10 (as claimed): a level-3 heading in body text followed by a closed
\* fence that family B rejects because its trimmed text starts with FILE
\* has an entry of family C.
C10_KeywordPrefixOnlyDeduplicates ==
  Extracted =>
    \A i \in HeadingStarts :
      ( /\ Level(i) = 3
        /\ IsSpace(At(Doc, i + 3))
        /\ InBodyText(i)
        /\ ClosedFence(i)
        /\ startswith(BareText(i), KEYWORD) )
      => \E k \in EntriesOf(i) : origin[k].family = "C" /\ origin[k].start = i

====
